---- MODULE Spec2Model ----
(***************************************************************************)
(* Model of gcalender_components.py: the Google Calendar components        *)
(* AuthenticateGoogleCalendar, GetGoogleCalendarEvents,                    *)
(* CreateGoogleCalendarEvent, ModifyGoogleCalendarEvent,                   *)
(* DeleteGoogleCalendarEvent and ExtractEventFromJsonString.               *)
(*                                                                         *)
(* Python values are encoded as records tagged with their type.            *)
(*   None            None                                                  *)
(*   True, False     Bool(TRUE), Bool(FALSE)                               *)
(*   an int          Integer(n)                                            *)
(*   a float         Float(m, e), the float nearest to m * 10^e, m of at   *)
(*                   most ten digits and not a multiple of 10 (0.0 and     *)
(*                   -0.0 are Float(0, 0)); Infinity(1) and Infinity(-1),  *)
(*                   also for a number too large for a float; NaN          *)
(*   a str           Str(q), q the sequence of pieces whose concatenation  *)
(*                   is the string                                         *)
(*   a list          List(q), q the sequence of the elements               *)
(*   a dict          Dict(f), f the function from its keys to values       *)
(*                   (Dict(<<>>) is the empty dict); a key is the text of  *)
(*                   the str as one TLA+ string, see below                 *)
(*                                                                         *)
(* The pieces of a str. "/" is always a piece of its own, so that          *)
(* split('/') can be computed. In a JSON text each of the following is a   *)
(* piece of its own: the quote, the backslash, the character after a       *)
(* backslash and each of the four hexadecimal digits after \u, each of     *)
(* { } [ ] , : outside string literals, each whitespace character, each    *)
(* character of a number (digit, sign, point, e or E), and each of the     *)
(* words null, true, false, NaN and Infinity. A character that a TLA+      *)
(* string cannot hold (a control character other than tab, newline, form   *)
(* feed and carriage return, the grave accent, and every character beyond  *)
(* "~") is the piece "U+" followed by its code point in upper-case         *)
(* hexadecimal, four digits at least. Ordinary characters never form a     *)
(* piece of that shape: the six characters U+00E9 are the pieces "U", "+"  *)
(* and "00E9".                                                             *)
(*                                                                         *)
(* The key of a dict is the pieces of the str joined, with every "+" of    *)
(* an ordinary piece written "++" and with ";" after the piece of a        *)
(* character that a TLA+ string cannot hold: the key of 'a+b' is "a++b",   *)
(* the key of an e acute is "U+00E9;" and the key of the six characters    *)
(* U+00E9 is "U++00E9". The keys of different strs are different, and a    *)
(* str without "+" and without such characters is its own key.             *)
(***************************************************************************)
EXTENDS Integers, Sequences, FiniteSets, TLC

VARIABLES
    ctx,                \* the shared context passed to every execute(ctx)
    store,              \* the remote calendar: the events the service holds, in listing order
    events,             \* GetGoogleCalendarEvents.events.value
    event_id,           \* CreateGoogleCalendarEvent.event_id.value
    modified_event_id,  \* ModifyGoogleCalendarEvent.modified_event_id.value
    deletion_status,    \* DeleteGoogleCalendarEvent.deletion_status.value
    extract,            \* the five output slots of ExtractEventFromJsonString
    op,                 \* the most recent invocation: component name, input values and,
                        \* for ExtractEventFromJsonString, the exception its except clause caught
    calls,              \* the external calls the most recent invocation issued, with their answers
    raised,             \* the exception class the most recent invocation propagated, or "none"
    pc,                 \* "idle", or "fetched" while ModifyGoogleCalendarEvent is between get and update
    local,              \* the locals of the ModifyGoogleCalendarEvent invocation in flight
    invocations         \* the number of component invocations of the run so far

vars == <<ctx, store, events, event_id, modified_event_id, deletion_status,
          extract, op, calls, raised, pc, local, invocations>>

slots == <<events, event_id, modified_event_id, deletion_status, extract>>

(***************************************************************************)
(* Python values                                                           *)
(***************************************************************************)
None == [type |-> "NoneType"]

Bool(b) == [type |-> "bool", val |-> b]

Integer(n) == [type |-> "int", val |-> n]

Infinity(sign) == [type |-> "float", val |-> [inf |-> sign]]

RECURSIVE Power10(_)
Power10(k) == IF k = 0 THEN 1 ELSE 10 * Power10(k - 1)

\* the number of decimal digits of n > 0
RECURSIVE NumDigits(_)
NumDigits(n) == IF n < 10 THEN 1 ELSE 1 + NumDigits(n \div 10)

Abs(n) == IF n < 0 THEN 0 - n ELSE n

\* the power of ten of the leading digit of m * 10^e
Magnitude(m, e) == NumDigits(Abs(m)) + e - 1

\* |m * 10^e| is at least 2^1024 - 2^970 = 1.797693134862315807...e308, from
\* where on float() rounds to infinity
TooLarge(m, e) ==
    \/ Magnitude(m, e) > 308
    \/ /\ Magnitude(m, e) = 308
       /\ Abs(m) > 1797693134 \div Power10(10 - NumDigits(Abs(m)))

\* |m * 10^e| is at most 2^-1075 = 2.470328229206232720...e-324, up to where
\* float() rounds to zero
TooSmall(m, e) ==
    \/ Magnitude(m, e) < 0 - 324
    \/ /\ Magnitude(m, e) = 0 - 324
       /\ \/ NumDigits(Abs(m)) = 10
          \/ Abs(m) <= 247032822 \div Power10(9 - NumDigits(Abs(m)))

\* float() of the decimal m * 10^e
RECURSIVE Float(_, _)
Float(m, e) ==
    IF m = 0 THEN [type |-> "float", val |-> [m |-> 0, e |-> 0]]
    ELSE IF m % 10 = 0 THEN Float(m \div 10, e + 1)
    ELSE IF TooLarge(m, e) THEN Infinity(IF m < 0 THEN 0 - 1 ELSE 1)
    ELSE IF TooSmall(m, e) THEN [type |-> "float", val |-> [m |-> 0, e |-> 0]]
    ELSE [type |-> "float", val |-> [m |-> m, e |-> e]]

NaN == [type |-> "float", val |-> [nan |-> TRUE]]

Str(q) == [type |-> "str", val |-> q]

List(q) == [type |-> "list", val |-> q]

Dict(f) == [type |-> "dict", val |-> f]

IsDict(v) == v.type = "dict"

\* bool(v)
Truthy(v) ==
    CASE v.type = "NoneType" -> FALSE
      [] v.type = "bool"     -> v.val
      [] v.type = "int"      -> v.val # 0
      [] v.type = "float"    -> v.val # [m |-> 0, e |-> 0]
      [] v.type = "dict"     -> DOMAIN v.val # {}
      [] OTHER               -> Len(v.val) > 0

\* d.keys()
Keys(d) == DOMAIN d.val

\* k in d
Has(d, k) == k \in DOMAIN d.val

\* d[k], for a key d holds
Item(d, k) == d.val[k]

\* d.get(k, default)
Get(d, k, default) == IF Has(d, k) THEN d.val[k] ELSE default

\* d[k] = v
SetItem(d, k, v) == Dict((k :> v) @@ d.val)

\* a + b on str
Concat(a, b) == Str(a.val \o b.val)

Last(q) == q[Len(q)]

\* the pieces of q split at every sep, as str.split(sep) does: always at
\* least one segment, empty segments kept
RECURSIVE Split(_, _)
Split(q, sep) ==
    IF \A i \in 1..Len(q) : q[i] # sep
    THEN <<q>>
    ELSE LET i == CHOOSE j \in 1..Len(q) : q[j] = sep /\ \A k \in 1..(j - 1) : q[k] # sep
         IN <<SubSeq(q, 1, i - 1)>> \o Split(SubSeq(q, i + 1, Len(q)), sep)

\* the outcome of an evaluation: a value, or the exception it raised
Ok(v) == [ok |-> TRUE, val |-> v]

Raise(exc, msg) == [ok |-> FALSE, exc |-> exc, msg |-> Str(<<msg>>)]


\* the except clauses reporting the class of the exception instead of str(e)
ErrorObject_ClassName(r) == Dict([error |-> Str(<<r.exc>>)])

\* the {"error": str(e)} object of the except clauses
ErrorObject(r) == Dict([error |-> r.msg])

(***************************************************************************)
(* GetGoogleCalendarEvents                                                 *)
(***************************************************************************)

\* extract_meeting_id without its test of the link
extract_meeting_id_Unguarded(meet_url) == Str(Last(Split(meet_url.val, "/")))

extract_meeting_id(meet_url) ==
    IF Truthy(meet_url)
    THEN Str(Last(Split(meet_url.val, "/")))
    ELSE None

\* event['start'].get('dateTime', event['start'].get('date'))
EventTime(t) == Get(t, "dateTime", Get(t, "date", None))

\* [participant['email'] for participant in event.get('attendees', [])]
RECURSIVE AttendeeEmails(_)
AttendeeEmails(q) ==
    IF q = <<>> THEN Ok(<<>>)
    ELSE IF ~Has(Head(q), "email") THEN Raise("KeyError", "'email'")
    ELSE LET rest == AttendeeEmails(Tail(q))
         IN IF rest.ok THEN Ok(<<Item(Head(q), "email")>> \o rest.val) ELSE rest

\* the event_details dict of one event, its entries evaluated in source order
EventDetails(event) ==
    IF ~Has(event, "start") THEN Raise("KeyError", "'start'")
    ELSE IF ~Has(event, "end") THEN Raise("KeyError", "'end'")
    ELSE LET emails == AttendeeEmails(Get(event, "attendees", List(<<>>)).val)
         IN IF ~emails.ok THEN emails
            ELSE Ok(Dict([event_name   |-> Get(event, "summary", Str(<<"No Title">>)),
                          start_time   |-> EventTime(Item(event, "start")),
                          end_time     |-> EventTime(Item(event, "end")),
                          location     |-> Get(event, "location", Str(<<>>)),
                          participants |-> List(emails.val),
                          gmeet_link   |-> Get(event, "hangoutLink", Str(<<>>)),
                          meeting_id   |-> extract_meeting_id(Get(event, "hangoutLink", Str(<<>>)))]))

\* the for loop building events_list
RECURSIVE EventsList(_)
EventsList(q) ==
    IF q = <<>> THEN Ok(<<>>)
    ELSE LET first == EventDetails(Head(q))
         IN IF ~first.ok THEN first
            ELSE LET rest == EventsList(Tail(q))
                 IN IF rest.ok THEN Ok(<<first.val>> \o rest.val) ELSE rest


\* execute without its test for an empty listing
ListResult_NoSentinel(events_result) ==
    LET lst == EventsList(Get(events_result, "items", List(<<>>)).val)
    IN IF lst.ok THEN Ok(Dict([events |-> List(lst.val)])) ELSE lst

\* what execute stores in events.value once the listing call returned events_result
ListResult(events_result) ==
    LET items == Get(events_result, "items", List(<<>>))
    IN IF ~Truthy(items)
       THEN Ok(Dict([message |-> Str(<<"No events found for the specified day.">>)]))
       ELSE LET lst == EventsList(items.val)
            IN IF lst.ok THEN Ok(Dict([events |-> List(lst.val)])) ELSE lst

\* the events().list(...).execute() request of lines 63-68, with the answer it got
ListCall(calendar_id, date, answer) ==
    [method       |-> "events.list",
     calendarId   |-> calendar_id,
     timeMin      |-> Concat(date, Str(<<"T00:00:00Z">>)),
     timeMax      |-> Concat(date, Str(<<"T23:59:59Z">>)),
     singleEvents |-> TRUE,
     response     |-> answer]

\* the failures of a remote request: the service is unavailable, or it does
\* not hold the event asked for
Unavailable == Raise("HttpError", "<HttpError 503 \"Service Unavailable\">")

NotFound == Raise("HttpError", "<HttpError 404 \"Not Found\">")

\* GetGoogleCalendarEvents.execute: the value stored in events.value and the
\* requests issued, when the context is c and the service answers the request
\* with answer (Ok(events_result) or a raised failure)
GetGoogleCalendarEvents_execute(c, calendar_id, date, answer) ==
    IF ~Has(c, "service")
    THEN [out |-> ErrorObject(Raise("KeyError", "'service'")), calls |-> <<>>]
    ELSE IF date = None
    THEN [out   |-> ErrorObject(Raise("TypeError",
                       "unsupported operand type(s) for +: 'NoneType' and 'str'")),
          calls |-> <<>>]
    ELSE LET res == IF answer.ok THEN ListResult(answer.val) ELSE answer
         IN [out   |-> IF res.ok THEN res.val ELSE ErrorObject(res),
             calls |-> <<ListCall(calendar_id, date, answer)>>]

(***************************************************************************)
(* The remote calendar service                                             *)
(***************************************************************************)
\* the answers events().list may give: every event the calendar holds, in the
\* service's order; an empty calendar is answered with an empty items list or
\* without an items key
ListAnswers(s) ==
    IF s = <<>>
    THEN {Ok(Dict(<<>>)), Ok(Dict([items |-> List(<<>>)])), Unavailable}
    ELSE {Ok(Dict([items |-> List(s)])), Unavailable}

\* the positions of the stored events with identifier id
Positions(s, id) == {i \in 1..Len(s) : Item(s[i], "id") = id}

\* the answers events().get may give
GetAnswers(s, id) ==
    IF Positions(s, id) = {}
    THEN {NotFound, Unavailable}
    ELSE {Ok(s[CHOOSE i \in Positions(s, id) : TRUE]), Unavailable}

Digits == <<"1", "2", "3", "4", "5", "6", "7", "8", "9">>

\* the i-th event identifier of the service
EventId(i) == Str(<<"e", Digits[i]>>)

\* the identifier the service assigns to the next inserted event: the first one free
NewId(s) ==
    EventId(CHOOSE i \in 1..Len(Digits) :
              /\ Positions(s, EventId(i)) = {}
              /\ \A j \in 1..(i - 1) : Positions(s, EventId(j)) # {})

\* the calendar after events().insert(body) succeeded
Inserted(s, body) == Append(s, SetItem(body, "id", NewId(s)))

\* the calendar after events().update(eventId=id, body) succeeded: the stored
\* resource is replaced by the body as a whole
Updated(s, id, body) ==
    [i \in 1..Len(s) |-> IF Item(s[i], "id") = id THEN SetItem(body, "id", id) ELSE s[i]]

\* the calendar after events().delete(eventId=id) succeeded
RECURSIVE Deleted(_, _)
Deleted(s, id) ==
    IF s = <<>> THEN <<>>
    ELSE IF Item(Head(s), "id") = id THEN Deleted(Tail(s), id)
    ELSE <<Head(s)>> \o Deleted(Tail(s), id)

\* the answers events().insert may give; the service accepts the event while
\* the calendar holds fewer than cap events
InsertAnswers(s, body, cap) ==
    IF Len(s) < cap THEN {Ok(SetItem(body, "id", NewId(s))), Unavailable} ELSE {Unavailable}

\* the answers events().update may give
UpdateAnswers(s, id, body) ==
    IF Positions(s, id) = {}
    THEN {NotFound, Unavailable}
    ELSE {Ok(SetItem(body, "id", id)), Unavailable}

\* the answers events().delete may give
DeleteAnswers(s, id) ==
    IF Positions(s, id) = {} THEN {NotFound, Unavailable} ELSE {Ok(Dict(<<>>)), Unavailable}

(***************************************************************************)
(* CreateGoogleCalendarEvent                                               *)
(***************************************************************************)
\* [{'email': participant} for participant in self.participants.value]
Attendees(q) == [i \in 1..Len(q) |-> Dict([email |-> q[i]])]

\* {'dateTime': t, 'timeZone': 'UTC'}
UtcTime(t) == Dict([dateTime |-> t, timeZone |-> Str(<<"UTC">>)])


\* the event dict built with the location set whatever its value
CreatePayload_AlwaysLocation(summary, start_time, end_time, location, participants) ==
    LET base == Dict([summary  |-> summary,
                      start    |-> UtcTime(start_time),
                      end      |-> UtcTime(end_time),
                      location |-> location])
    IN IF Truthy(participants)
       THEN SetItem(base, "attendees", List(Attendees(participants.val)))
       ELSE base

\* the event dict built in lines 128-139
CreatePayload(summary, start_time, end_time, location, participants) ==
    LET base == Dict([summary |-> summary,
                      start   |-> UtcTime(start_time),
                      end     |-> UtcTime(end_time)])
        withLocation == IF Truthy(location) THEN SetItem(base, "location", location) ELSE base
    IN IF Truthy(participants)
       THEN SetItem(withLocation, "attendees", List(Attendees(participants.val)))
       ELSE withLocation

InsertCall(calendar_id, body, answer) ==
    [method |-> "events.insert", calendarId |-> calendar_id, body |-> body, response |-> answer]


\* CreateGoogleCalendarEvent.execute sending the insert again after a failure
CreateGoogleCalendarEvent_execute_Retry(c, calendar_id, summary, start_time, end_time, location, participants, answer) ==
    IF ~Has(c, "service")
    THEN [out |-> ErrorObject(Raise("KeyError", "'service'")), calls |-> <<>>]
    ELSE LET body == CreatePayload(summary, start_time, end_time, location, participants)
             call == InsertCall(calendar_id, body, answer)
         IN [out   |-> IF answer.ok THEN Item(answer.val, "id") ELSE ErrorObject(answer),
             calls |-> IF answer.ok THEN <<call>> ELSE <<call, call>>]

\* CreateGoogleCalendarEvent.execute: answer is Ok(created_event) or a raised failure
CreateGoogleCalendarEvent_execute(c, calendar_id, summary, start_time, end_time, location, participants, answer) ==
    IF ~Has(c, "service")
    THEN [out |-> ErrorObject(Raise("KeyError", "'service'")), calls |-> <<>>]
    ELSE LET body == CreatePayload(summary, start_time, end_time, location, participants)
         IN [out   |-> IF answer.ok THEN Item(answer.val, "id") ELSE ErrorObject(answer),
             calls |-> <<InsertCall(calendar_id, body, answer)>>]

(***************************************************************************)
(* ModifyGoogleCalendarEvent and DeleteGoogleCalendarEvent                 *)
(***************************************************************************)
\* self.calendar_id.value if self.calendar_id.value else "primary"
CalId(calendar_id) == IF Truthy(calendar_id) THEN calendar_id ELSE Str(<<"primary">>)


\* the update body with the summary overwritten and the description forgotten
ModifyBody_SummaryOnly(event, new_summary, new_description) ==
    SetItem(event, "summary", new_summary)

\* the update body built from the new values alone
ModifyBody_Patch(event, new_summary, new_description) ==
    Dict([summary |-> new_summary, description |-> new_description])

\* the fetched event after lines 173-174
ModifyBody(event, new_summary, new_description) ==
    SetItem(SetItem(event, "summary", new_summary), "description", new_description)

GetCall(cal_id, id, answer) ==
    [method |-> "events.get", calendarId |-> cal_id, eventId |-> id, response |-> answer]

\* replaced is the resource the service held when the update arrived
UpdateCall(cal_id, id, body, answer, replaced) ==
    [method |-> "events.update", calendarId |-> cal_id, eventId |-> id, body |-> body,
     response |-> answer, replaced |-> replaced]

DeleteCall(cal_id, id, answer) ==
    [method |-> "events.delete", calendarId |-> cal_id, eventId |-> id, response |-> answer]


\* DeleteGoogleCalendarEvent.execute calling the service without looking the handle up
DeleteGoogleCalendarEvent_execute_NoLookup(c, id, calendar_id, answer) ==
    [out   |-> IF answer.ok
               THEN Dict([status |-> Str(<<"Event deleted successfully.">>)])
               ELSE ErrorObject(answer),
     calls |-> <<DeleteCall(CalId(calendar_id), id, answer)>>]

\* DeleteGoogleCalendarEvent.execute: answer is Ok(response) or a raised failure
DeleteGoogleCalendarEvent_execute(c, id, calendar_id, answer) ==
    IF ~Has(c, "service")
    THEN [out |-> ErrorObject(Raise("KeyError", "'service'")), calls |-> <<>>]
    ELSE [out   |-> IF answer.ok
                    THEN Dict([status |-> Str(<<"Event deleted successfully.">>)])
                    ELSE ErrorObject(answer),
          calls |-> <<DeleteCall(CalId(calendar_id), id, answer)>>]

(***************************************************************************)
(* json.loads. The text of a JSONDecodeError message is not modelled, and  *)
(* integers are those of TLC.                                              *)
(***************************************************************************)
Quote == "\""

Backslash == "\\"

JSONDecodeError == Raise("JSONDecodeError", "JSONDecodeError")

\* the characters from " " to "~", in the order of their code points; the
\* grave accent, which no TLA+ string holds, is the piece U+0060
Ascii ==
    <<" ", "!", "\"", "#", "$", "%", "&", "'", "(", ")", "*", "+", ",", "-", ".", "/",
      "0", "1", "2", "3", "4", "5", "6", "7", "8", "9", ":", ";", "<", "=", ">", "?",
      "@", "A", "B", "C", "D", "E", "F", "G", "H", "I", "J", "K", "L", "M", "N", "O",
      "P", "Q", "R", "S", "T", "U", "V", "W", "X", "Y", "Z", "[", "\\", "]", "^", "_",
      "U+0060", "a", "b", "c", "d", "e", "f", "g", "h", "i", "j", "k", "l", "m", "n", "o",
      "p", "q", "r", "s", "t", "u", "v", "w", "x", "y", "z", "{", "|", "}", "~">>

HexDigits == <<"0", "1", "2", "3", "4", "5", "6", "7", "8", "9", "A", "B", "C", "D", "E", "F">>

LowerHexDigits == <<"0", "1", "2", "3", "4", "5", "6", "7", "8", "9", "a", "b", "c", "d", "e", "f">>

IsHexDigit(c) == \E i \in 1..16 : HexDigits[i] = c \/ LowerHexDigits[i] = c

HexValue(c) == (CHOOSE i \in 1..16 : HexDigits[i] = c \/ LowerHexDigits[i] = c) - 1

\* n in upper-case hexadecimal, k digits at least
RECURSIVE HexText(_, _)
HexText(n, k) ==
    IF n < 16 /\ k <= 1 THEN HexDigits[n + 1]
    ELSE HexText(n \div 16, k - 1) \o HexDigits[(n % 16) + 1]

\* chr(cp), as a piece
Chr(cp) ==
    IF cp \in 32..126 THEN Ascii[cp - 31]
    ELSE IF cp = 9 THEN "\t"
    ELSE IF cp = 10 THEN "\n"
    ELSE IF cp = 12 THEN "\f"
    ELSE IF cp = 13 THEN "\r"
    ELSE "U+" \o HexText(cp, 4)

\* the characters a string literal must escape in strict mode
ControlCharacters == {Chr(cp) : cp \in 0..31}

\* the characters the decoder skips between tokens
Whitespace == {" ", "\t", "\n", "\r"}

\* q without its leading whitespace
RECURSIVE SkipBlanks(_)
SkipBlanks(q) == IF q # <<>> /\ Head(q) \in Whitespace THEN SkipBlanks(Tail(q)) ELSE q

Parsed(v, rest) == [ok |-> TRUE, val |-> v, rest |-> rest]

NoParse == [ok |-> FALSE]

\* the character of a one-character escape sequence
Escaped(c) ==
    CASE c = Quote     -> Quote
      [] c = Backslash -> Backslash
      [] c = "/"       -> "/"
      [] c = "b"       -> Chr(8)
      [] c = "f"       -> "\f"
      [] c = "n"       -> "\n"
      [] c = "r"       -> "\r"
      [] c = "t"       -> "\t"

\* q starts with four hexadecimal digits
HasHex4(q) == Len(q) >= 4 /\ \A i \in 1..4 : IsHexDigit(q[i])

Hex4(q) == ((HexValue(q[1]) * 16 + HexValue(q[2])) * 16 + HexValue(q[3])) * 16 + HexValue(q[4])

\* the character a high surrogate uni and the \u escape uni2 after it stand
\* for; s starts at the backslash of the second escape
Surrogates(uni, uni2, s) ==
    IF uni2 \in 56320..57343
    THEN Parsed(Chr(65536 + (uni - 55296) * 1024 + (uni2 - 56320)), SubSeq(s, 7, Len(s)))
    ELSE Parsed(Chr(uni), s)

\* the character of the escape \u with code uni, s being the text after its digits
UnicodeEscape(uni, s) ==
    IF ~(uni \in 55296..56319 /\ Len(s) >= 2 /\ s[1] = Backslash /\ s[2] = "u") THEN Parsed(Chr(uni), s)
    ELSE IF ~HasHex4(SubSeq(s, 3, Len(s))) THEN NoParse
    ELSE Surrogates(uni, Hex4(SubSeq(s, 3, 6)), s)

\* the first character of the contents q of a string literal
NextChar(q) ==
    IF Head(q) \in ControlCharacters THEN NoParse
    ELSE IF Head(q) # Backslash THEN Parsed(Head(q), Tail(q))
    ELSE IF Len(q) < 2 THEN NoParse
    ELSE IF q[2] \in {Quote, Backslash, "/", "b", "f", "n", "r", "t"}
    THEN Parsed(Escaped(q[2]), SubSeq(q, 3, Len(q)))
    ELSE IF q[2] # "u" \/ ~HasHex4(SubSeq(q, 3, Len(q))) THEN NoParse
    ELSE UnicodeEscape(Hex4(SubSeq(q, 3, 6)), SubSeq(q, 7, Len(q)))

\* the contents of a string literal whose opening quote was consumed
RECURSIVE ParseString(_, _)
StringAfter(c, acc) == IF c.ok THEN ParseString(c.rest, Append(acc, c.val)) ELSE NoParse

ParseString(q, acc) ==
    IF q = <<>> THEN NoParse
    ELSE IF Head(q) = Quote THEN Parsed(Str(acc), Tail(q))
    ELSE StringAfter(NextChar(q), acc)

\* whether the piece p stands for a character that a TLA+ string cannot hold
IsCodePoint(p) ==
    /\ Len(p) \in 6..8
    /\ SubSeq(p, 1, 2) = "U+"
    /\ \A i \in 3..Len(p) : \E d \in 1..16 : HexDigits[d] = SubSeq(p, i, i)

\* the characters of the ordinary piece p from the i-th on, each "+" doubled
RECURSIVE Escape(_, _)
Escape(p, i) ==
    IF i > Len(p) THEN ""
    ELSE (IF SubSeq(p, i, i) = "+" THEN "++" ELSE SubSeq(p, i, i)) \o Escape(p, i + 1)

\* the text of the pieces q as one TLA+ string, different for different
\* strings: an ordinary "+" is doubled, and the piece of a character that a
\* TLA+ string cannot hold, which has a single "+", ends in ";"
RECURSIVE KeyText(_)
KeyText(q) ==
    IF q = <<>> THEN ""
    ELSE (IF IsCodePoint(Head(q)) THEN Head(q) \o ";" ELSE Escape(Head(q), 1)) \o KeyText(Tail(q))

\* the key of an object member: the contents of its string literal
KeyOf(s) == KeyText(s.val)

DecimalDigits == <<"0", "1", "2", "3", "4", "5", "6", "7", "8", "9">>

IsDigit(c) == \E i \in 1..10 : DecimalDigits[i] = c

DigitValue(c) == (CHOOSE i \in 1..10 : DecimalDigits[i] = c) - 1

\* the digits q starts with, read after the count digits of value n
RECURSIVE ReadDigits(_, _, _)
ReadDigits(q, n, count) ==
    IF q # <<>> /\ IsDigit(Head(q))
    THEN ReadDigits(Tail(q), n * 10 + DigitValue(Head(q)), count + 1)
    ELSE [val |-> n, count |-> count, rest |-> q]

\* the number whose digits and exponent were read: m * 10^(exp - scale)
Scaled(m, scale, esign, exp) == Parsed(Float(m, esign * exp.val - scale), exp.rest)

\* the exponent part ([eE][-+]?[0-9]+)? of a number, e0 being the text after
\* the digits m / 10^scale read so far
Exponent(m, scale, e0, isFloat) ==
    IF Len(e0) >= 3 /\ e0[1] \in {"e", "E"} /\ e0[2] \in {"+", "-"} /\ IsDigit(e0[3])
    THEN Scaled(m, scale, IF e0[2] = "-" THEN 0 - 1 ELSE 1, ReadDigits(SubSeq(e0, 3, Len(e0)), 0, 0))
    ELSE IF Len(e0) >= 2 /\ e0[1] \in {"e", "E"} /\ IsDigit(e0[2])
    THEN Scaled(m, scale, 1, ReadDigits(Tail(e0), 0, 0))
    ELSE IF isFloat THEN Parsed(Float(m, 0 - scale), e0)
    ELSE Parsed(Integer(m), e0)

FractionDigits(sign, n, frac) ==
    Exponent(sign * (n * Power10(frac.count) + frac.val), frac.count, frac.rest, TRUE)

\* the fraction part (\.[0-9]+)? of a number, f0 being the text after the integer part n
Fraction(sign, n, f0) ==
    IF Len(f0) >= 2 /\ f0[1] = "." /\ IsDigit(f0[2])
    THEN FractionDigits(sign, n, ReadDigits(Tail(f0), 0, 0))
    ELSE Exponent(sign * n, 0, f0, FALSE)

IntegerDigits(sign, int) == Fraction(sign, int.val, int.rest)

\* the number after its sign: (0|[1-9][0-9]*)(\.[0-9]+)?([eE][-+]?[0-9]+)? is
\* an int without fraction and exponent, and a float otherwise
Unsigned(sign, a) ==
    IF a = <<>> THEN NoParse
    ELSE IF ~IsDigit(Head(a)) THEN NoParse
    ELSE IF Head(a) = "0" THEN Fraction(sign, 0, Tail(a))
    ELSE IntegerDigits(sign, ReadDigits(a, 0, 0))

\* a number, -Infinity included
ParseNumber(q) ==
    IF Head(q) # "-" THEN Unsigned(1, q)
    ELSE IF Len(q) >= 2 /\ q[2] = "Infinity" THEN Parsed(Infinity(0 - 1), SubSeq(q, 3, Len(q)))
    ELSE Unsigned(0 - 1, Tail(q))

RECURSIVE ParseValue(_)
RECURSIVE ParseMembers(_, _)
RECURSIVE ParseElements(_, _)
\* after a member of an object: the closing brace, or a comma and more members
MoreMembers(d, e) ==
    IF e = <<>> THEN NoParse
    ELSE IF Head(e) = "}" THEN Parsed(d, Tail(e))
    ELSE IF Head(e) = "," THEN ParseMembers(Tail(e), d)
    ELSE NoParse

\* a repeated key keeps its last value
MemberEnd(k, v, acc) ==
    IF ~v.ok THEN NoParse ELSE MoreMembers(SetItem(acc, KeyOf(k), v.val), SkipBlanks(v.rest))

MemberValue(k, c, acc) ==
    IF c = <<>> THEN NoParse
    ELSE IF Head(c) # ":" THEN NoParse
    ELSE MemberEnd(k, ParseValue(Tail(c)), acc)

MemberColon(k, acc) == IF ~k.ok THEN NoParse ELSE MemberValue(k.val, SkipBlanks(k.rest), acc)

MemberName(q, acc) ==
    IF q = <<>> THEN NoParse
    ELSE IF Head(q) # Quote THEN NoParse
    ELSE MemberColon(ParseString(Tail(q), <<>>), acc)

\* "key": value pairs up to the closing brace, acc holding the pairs read so far
ParseMembers(q0, acc) == MemberName(SkipBlanks(q0), acc)

\* after an element of an array: the closing bracket, or a comma and more elements
MoreElements(items, e) ==
    IF e = <<>> THEN NoParse
    ELSE IF Head(e) = "]" THEN Parsed(List(items), Tail(e))
    ELSE IF Head(e) = "," THEN ParseElements(Tail(e), items)
    ELSE NoParse

ElementEnd(v, acc) ==
    IF ~v.ok THEN NoParse ELSE MoreElements(Append(acc, v.val), SkipBlanks(v.rest))

\* values up to the closing bracket, acc holding the values read so far
ParseElements(q0, acc) == ElementEnd(ParseValue(q0), acc)

\* an object whose opening brace was consumed
ParseObject(r) ==
    IF r # <<>> /\ Head(r) = "}" THEN Parsed(Dict(<<>>), Tail(r)) ELSE ParseMembers(r, Dict(<<>>))

\* an array whose opening bracket was consumed
ParseArray(r) ==
    IF r # <<>> /\ Head(r) = "]" THEN Parsed(List(<<>>), Tail(r)) ELSE ParseElements(r, <<>>)

\* the value q starts with
ScanOnce(q) ==
    IF q = <<>> THEN NoParse
    ELSE IF Head(q) = Quote THEN ParseString(Tail(q), <<>>)
    ELSE IF Head(q) = "{" THEN ParseObject(SkipBlanks(Tail(q)))
    ELSE IF Head(q) = "[" THEN ParseArray(SkipBlanks(Tail(q)))
    ELSE IF Head(q) = "null" THEN Parsed(None, Tail(q))
    ELSE IF Head(q) = "true" THEN Parsed(Bool(TRUE), Tail(q))
    ELSE IF Head(q) = "false" THEN Parsed(Bool(FALSE), Tail(q))
    ELSE IF Head(q) = "-" \/ IsDigit(Head(q)) THEN ParseNumber(q)
    ELSE IF Head(q) = "NaN" THEN Parsed(NaN, Tail(q))
    ELSE IF Head(q) = "Infinity" THEN Parsed(Infinity(1), Tail(q))
    ELSE NoParse

\* the value q0 starts with after whitespace
ParseValue(q0) == ScanOnce(SkipBlanks(q0))

\* the decoded value when nothing but whitespace follows it
Decoded(r) == IF r.ok /\ SkipBlanks(r.rest) = <<>> THEN Ok(r.val) ELSE JSONDecodeError

json_loads(s) ==
    IF s = None
    THEN Raise("TypeError", "the JSON object must be str, bytes or bytearray, not NoneType")
    ELSE Decoded(ParseValue(s.val))

\* data[k] of lines 234-236
GetItem(data, k) ==
    CASE data.type = "dict" ->
           IF Has(data, k) THEN Ok(Item(data, k)) ELSE Raise("KeyError", "'" \o k \o "'")
      [] data.type = "list" -> Raise("TypeError", "list indices must be integers or slices, not str")
      [] data.type = "str"  -> Raise("TypeError", "string indices must be integers, not 'str'")
      [] OTHER              -> Raise("TypeError", "'" \o data.type \o "' object is not subscriptable")

(***************************************************************************)
(* ExtractEventFromJsonString                                              *)
(***************************************************************************)

\* ExtractEventFromJsonString.execute assigning the optional outputs first
ExtractEventFromJsonString_execute_OptionalFirst(slot, json) ==
    LET data == json_loads(json)
        failed(s, r) == [out |-> [s EXCEPT !.summary = ErrorObject(r)], caught |-> r.exc]
    IN IF ~data.ok THEN failed(slot, data)
       ELSE IF ~IsDict(data.val) THEN failed(slot, GetItem(data.val, "summary"))
       ELSE LET s0 == [slot EXCEPT !.location = Get(data.val, "location", Str(<<>>)),
                                   !.participants = Get(data.val, "participants", List(<<>>))]
                v1 == GetItem(data.val, "summary")
                v2 == GetItem(data.val, "start_time")
                v3 == GetItem(data.val, "end_time")
            IN IF ~v1.ok THEN failed(s0, v1)
               ELSE IF ~v2.ok THEN failed(s0, v2)
               ELSE IF ~v3.ok THEN failed([s0 EXCEPT !.start_time = v2.val], v3)
               ELSE [out    |-> [s0 EXCEPT !.summary = v1.val, !.start_time = v2.val,
                                           !.end_time = v3.val],
                     caught |-> "none"]

\* ExtractEventFromJsonString.execute: the five output slots after the
\* invocation, given the slots before it, and the class of the exception the
\* except clause caught ("none" when the try block completed); the
\* assignments take effect one by one, and the except clause overwrites
\* summary only
ExtractEventFromJsonString_execute(slot, json) ==
    LET data == json_loads(json)
        failed(s, r) == [out |-> [s EXCEPT !.summary = ErrorObject(r)], caught |-> r.exc]
    IN IF ~data.ok THEN failed(slot, data)
       ELSE LET v1 == GetItem(data.val, "summary")
            IN IF ~v1.ok THEN failed(slot, v1)
               ELSE LET s1 == [slot EXCEPT !.summary = v1.val]
                        v2 == GetItem(data.val, "start_time")
                    IN IF ~v2.ok THEN failed(s1, v2)
                       ELSE LET s2 == [s1 EXCEPT !.start_time = v2.val]
                                v3 == GetItem(data.val, "end_time")
                            IN IF ~v3.ok THEN failed(s2, v3)
                               ELSE [out    |-> [s2 EXCEPT !.end_time = v3.val,
                                                    !.location = Get(data.val, "location", Str(<<>>)),
                                                    !.participants = Get(data.val, "participants", List(<<>>))],
                                     caught |-> "none"]

(***************************************************************************)
(* AuthenticateGoogleCalendar                                              *)
(***************************************************************************)
\* the text of a complete service-account document
CredentialText ==
    <<"{", Quote, "client_email", Quote, ":", " ", Quote, "sa@project.iam", Quote, ",", " ",
           Quote, "private_key", Quote, ":", " ", Quote, "KEY", Quote, ",", " ",
           Quote, "token_uri", Quote, ":", " ", Quote, "https:", "/", "/", "oauth2", Quote, "}">>

\* the base64 encoding of CredentialText
ValidBlob ==
    Str(<<"eyJjbGllbnRfZW1haWwiOiAic2FAcHJvamVjdC5pYW0iLCAicHJpdmF0ZV9rZXkiOiAiS0VZIiwgInRva2VuX3VyaSI6ICJodHRwczovL29hdXRoMiJ9">>)

\* the files of the filesystem: path |-> text
FileSystem ==
    (Str(<<"sa.json">>) :> Str(CredentialText))
    @@ (Str(<<"empty.json">>) :> Str(<<"{", "}">>))
    @@ (Str(<<"notes.txt">>) :> Str(<<"not", " ", "json">>))

\* os.path.exists
PathExists(path) == path \in DOMAIN FileSystem

\* base64.b64decode(encoded_json).decode(), on the values the environment
\* variable takes in this model: a blob with incorrect padding, the encoding
\* of a byte that is not UTF-8, and the encodings of three texts
B64DecodeText(encoded) ==
    CASE encoded = Str(<<"abc">>)          -> Raise("binascii.Error", "Incorrect padding")
      [] encoded = Str(<<"gA==">>)         -> Raise("UnicodeDecodeError",
                    "'utf-8' codec can't decode byte 0x80 in position 0: invalid start byte")
      [] encoded = Str(<<"bm90IGpzb24=">>) -> Ok(Str(<<"not", " ", "json">>))
      [] encoded = Str(<<"e30=">>)         -> Ok(Str(<<"{", "}">>))
      [] encoded = ValidBlob               -> Ok(Str(CredentialText))

\* service_account.Credentials.from_service_account_info(info, scopes=SCOPES)
CredentialsFromInfo(info, source) ==
    IF IsDict(info) /\ {"client_email", "private_key", "token_uri"} \subseteq Keys(info)
    THEN Ok([client_email |-> Item(info, "client_email"),
             scopes       |-> List(<<Str(<<"https:", "/", "/", "www.googleapis.com", "/", "auth", "/", "calendar">>)>>),
             source       |-> source])
    ELSE Raise("ValueError", "Service account info was not in the expected format")

\* build('calendar', 'v3', credentials=credentials)
Build(credentials) == [api |-> "calendar", version |-> "v3", credentials |-> credentials]

ExistsCall(path) == [method |-> "os.path.exists", path |-> path, response |-> PathExists(path)]

FileCall(path) == [method |-> "from_service_account_file", path |-> path]

GetenvCall(value) ==
    [method |-> "os.getenv", name |-> "GOOGLE_SERVICE_ACCOUNT_CREDENTIALS", response |-> value]


\* AuthenticateGoogleCalendar.execute reading the file without testing that it exists
AuthenticateGoogleCalendar_execute_NoExistsTest(c, path, encoded_json) ==
    LET failed(r, log) == [ctx |-> c, raised |-> r.exc, calls |-> log]
        done(cr, log)  == [ctx |-> SetItem(c, "service", Build(cr.val)), raised |-> "none", calls |-> log]
    IN IF Truthy(path)
       THEN LET info == IF PathExists(path) THEN json_loads(FileSystem[path])
                        ELSE Raise("FileNotFoundError", "[Errno 2] No such file or directory")
                cr   == IF info.ok THEN CredentialsFromInfo(info.val, "file") ELSE info
            IN IF cr.ok THEN done(cr, <<FileCall(path)>>) ELSE failed(cr, <<FileCall(path)>>)
       ELSE LET log == <<GetenvCall(encoded_json)>>
            IN IF ~Truthy(encoded_json)
               THEN failed(Raise("ValueError",
                        "Neither a valid file path nor GOOGLE_SERVICE_ACCOUNT_CREDENTIALS environment variable was found."), log)
               ELSE LET text == B64DecodeText(encoded_json)
                        info == IF text.ok THEN json_loads(text.val) ELSE text
                        cr   == IF info.ok THEN CredentialsFromInfo(info.val, "env") ELSE info
                    IN IF cr.ok THEN done(cr, log) ELSE failed(cr, log)

\* AuthenticateGoogleCalendar.execute: the context after the invocation, the
\* exception it propagates and the sources it consulted, when the input slot
\* holds path and the environment variable holds encoded_json (None when unset)
AuthenticateGoogleCalendar_execute(c, path, encoded_json) ==
    LET failed(r, log) == [ctx |-> c, raised |-> r.exc, calls |-> log]
        done(cr, log)  == [ctx |-> SetItem(c, "service", Build(cr.val)), raised |-> "none", calls |-> log]
        probed         == IF Truthy(path) THEN <<ExistsCall(path)>> ELSE <<>>
    IN IF Truthy(path) /\ PathExists(path)
       THEN LET info == json_loads(FileSystem[path])
                cr   == IF info.ok THEN CredentialsFromInfo(info.val, "file") ELSE info
            IN IF cr.ok THEN done(cr, probed \o <<FileCall(path)>>)
               ELSE failed(cr, probed \o <<FileCall(path)>>)
       ELSE LET log == probed \o <<GetenvCall(encoded_json)>>
            IN IF ~Truthy(encoded_json)
               THEN failed(Raise("ValueError",
                        "Neither a valid file path nor GOOGLE_SERVICE_ACCOUNT_CREDENTIALS environment variable was found."), log)
               ELSE LET text == B64DecodeText(encoded_json)
                        info == IF text.ok THEN json_loads(text.val) ELSE text
                        cr   == IF info.ok THEN CredentialsFromInfo(info.val, "env") ELSE info
                    IN IF cr.ok THEN done(cr, log) ELSE failed(cr, log)

(***************************************************************************)
(* Bounds and input values                                                 *)
(***************************************************************************)
\* the most events the remote calendar holds
MaxStore == 2

\* the most component invocations of one run of a workflow
MaxSteps == 5

\* the most events of a listed calendar
MaxItems == 2

\* the most pieces of a meeting link
MaxLinkLen == 3

\* the most participants of a created event and attendees of a listed event
MaxParticipants == 2

\* the sequences over S of length at most n
SeqsUpTo(S, n) == UNION {[1..k -> S] : k \in 0..n}

Primary == Str(<<"primary">>)

Day == Str(<<"2024-05-01">>)

Nine == Str(<<"2024-05-01T09:00:00">>)

QuarterPast == Str(<<"2024-05-01T09:15:00">>)

Alice == Str(<<"alice@example.com">>)

Bob == Str(<<"bob@example.com">>)

\* an identifier no stored event carries
Unknown == Str(<<"e", "0">>)

EventIds == {EventId(i) : i \in 1..MaxStore} \cup {Unknown}

(***************************************************************************)
(* Initial state                                                           *)
(***************************************************************************)
NoSlots ==
    [summary |-> None, start_time |-> None, end_time |-> None,
     location |-> None, participants |-> None]

InitWith(c, s) ==
    /\ ctx = c
    /\ store = s
    /\ events = None
    /\ event_id = None
    /\ modified_event_id = None
    /\ deletion_status = None
    /\ extract = NoSlots
    /\ op = [name |-> "none"]
    /\ calls = <<>>
    /\ raised = "none"
    /\ pc = "idle"
    /\ local = <<>>
    /\ invocations = 0

\* a session starts unauthenticated, against an empty calendar
Init == InitWith(Dict(<<>>), <<>>)

(***************************************************************************)
(* Actions                                                                 *)
(***************************************************************************)
Authenticate(service_account_json, encoded_json) ==
    /\ pc = "idle"
    /\ LET r == AuthenticateGoogleCalendar_execute(ctx, service_account_json, encoded_json)
       IN /\ ctx' = r.ctx
          /\ raised' = r.raised
          /\ calls' = r.calls
    /\ op' = [name |-> "AuthenticateGoogleCalendar",
              service_account_json |-> service_account_json, env |-> encoded_json]
    /\ UNCHANGED <<store, slots, pc, local>>

ListEvents(calendar_id, date) ==
    /\ pc = "idle"
    /\ \E answer \in ListAnswers(store) :
         LET r == GetGoogleCalendarEvents_execute(ctx, calendar_id, date, answer)
         IN /\ events' = r.out
            /\ calls' = r.calls
    /\ op' = [name |-> "GetGoogleCalendarEvents", calendar_id |-> calendar_id, date |-> date]
    /\ raised' = "none"
    /\ UNCHANGED <<ctx, store, event_id, modified_event_id, deletion_status, extract, pc, local>>

CreateEvent(calendar_id, summary, start_time, end_time, location, participants) ==
    /\ pc = "idle"
    /\ LET body == CreatePayload(summary, start_time, end_time, location, participants)
       IN \E answer \in InsertAnswers(store, body, MaxStore) :
            LET r == CreateGoogleCalendarEvent_execute(ctx, calendar_id, summary, start_time,
                                                       end_time, location, participants, answer)
            IN /\ event_id' = r.out
               /\ calls' = r.calls
               /\ store' = IF r.calls # <<>> /\ answer.ok THEN Inserted(store, body) ELSE store
    /\ op' = [name |-> "CreateGoogleCalendarEvent", calendar_id |-> calendar_id,
              summary |-> summary, start_time |-> start_time, end_time |-> end_time,
              location |-> location, participants |-> participants]
    /\ raised' = "none"
    /\ UNCHANGED <<ctx, events, modified_event_id, deletion_status, extract, pc, local>>

\* ModifyGoogleCalendarEvent.execute up to the return of events().get (line 172)
ModifyFetch(id, new_summary, new_description, calendar_id) ==
    /\ pc = "idle"
    /\ op' = [name |-> "ModifyGoogleCalendarEvent", event_id |-> id, new_summary |-> new_summary,
              new_description |-> new_description, calendar_id |-> calendar_id]
    /\ raised' = "none"
    /\ IF ~Has(ctx, "service")
       THEN /\ modified_event_id' = ErrorObject(Raise("KeyError", "'service'"))
            /\ calls' = <<>>
            /\ UNCHANGED <<pc, local>>
       ELSE \E answer \in GetAnswers(store, id) :
              /\ calls' = <<GetCall(CalId(calendar_id), id, answer)>>
              /\ IF answer.ok
                 THEN /\ local' = [event |-> answer.val, cal_id |-> CalId(calendar_id)]
                      /\ pc' = "fetched"
                      /\ UNCHANGED modified_event_id
                 ELSE /\ modified_event_id' = ErrorObject(answer)
                      /\ UNCHANGED <<pc, local>>
    /\ UNCHANGED <<ctx, store, events, event_id, deletion_status, extract>>

\* ModifyGoogleCalendarEvent.execute from line 173 to its end
ModifyUpdate ==
    /\ pc = "fetched"
    /\ LET id   == op.event_id
           body == ModifyBody(local.event, op.new_summary, op.new_description)
           held == IF Positions(store, id) = {} THEN None
                   ELSE store[CHOOSE i \in Positions(store, id) : TRUE]
       IN \E answer \in UpdateAnswers(store, id, body) :
            /\ calls' = Append(calls, UpdateCall(local.cal_id, id, body, answer, held))
            /\ modified_event_id' = IF answer.ok THEN Item(answer.val, "id") ELSE ErrorObject(answer)
            /\ store' = IF answer.ok THEN Updated(store, id, body) ELSE store
    /\ pc' = "idle"
    /\ local' = <<>>
    /\ UNCHANGED <<ctx, events, event_id, deletion_status, extract, op, raised>>

DeleteEvent(id, calendar_id) ==
    /\ pc = "idle"
    /\ \E answer \in DeleteAnswers(store, id) :
         LET r == DeleteGoogleCalendarEvent_execute(ctx, id, calendar_id, answer)
         IN /\ deletion_status' = r.out
            /\ calls' = r.calls
            /\ store' = IF r.calls # <<>> /\ answer.ok THEN Deleted(store, id) ELSE store
    /\ op' = [name |-> "DeleteGoogleCalendarEvent", event_id |-> id, calendar_id |-> calendar_id]
    /\ raised' = "none"
    /\ UNCHANGED <<ctx, events, event_id, modified_event_id, extract, pc, local>>

ExtractEvent(json) ==
    /\ pc = "idle"
    /\ LET r == ExtractEventFromJsonString_execute(extract, json)
       IN /\ extract' = r.out
          /\ op' = [name |-> "ExtractEventFromJsonString", json |-> json, caught |-> r.caught]
    /\ calls' = <<>>
    /\ raised' = "none"
    /\ UNCHANGED <<ctx, store, events, event_id, modified_event_id, deletion_status, pc, local>>

\* another client of the calendar service rewrites a field of a stored event
ExternalWrite(i, key, value) ==
    /\ i \in 1..Len(store)
    /\ Get(store[i], key, None) # value
    /\ store' = [store EXCEPT ![i] = SetItem(@, key, value)]
    /\ UNCHANGED <<ctx, slots, op, calls, raised, pc, local>>

(***************************************************************************)
(* A session: every component, in any order                                *)
(***************************************************************************)
Standup == Str(<<"Standup">>)

Retro == Str(<<"Retro">>)

Notes == Str(<<"Notes">>)

Room2 == Str(<<"Room 2">>)

\* json.dumps of a list of str whose pieces need no escape, after the opening bracket
RECURSIVE DumpsList(_)
DumpsList(q) ==
    IF q = <<>> THEN <<"]">>
    ELSE <<Quote>> \o Head(q).val \o <<Quote>>
         \o (IF Tail(q) = <<>> THEN <<>> ELSE <<",", " ">>) \o DumpsList(Tail(q))

\* json.dumps of a str whose pieces need no escape, or of a list of such
DumpsValue(v) ==
    IF v.type = "list" THEN <<"[">> \o DumpsList(v.val) ELSE <<Quote>> \o v.val \o <<Quote>>

\* json.dumps of the members of dict d after the opening brace, its keys in the order of keys
RECURSIVE Dumps(_, _)
Dumps(d, keys) ==
    IF keys = <<>> THEN <<"}">>
    ELSE <<Quote, Head(keys), Quote, ":", " ">> \o DumpsValue(Item(d, Head(keys)))
         \o (IF Tail(keys) = <<>> THEN <<>> ELSE <<",", " ">>) \o Dumps(d, Tail(keys))

DraftJson ==
    Str(<<"{">> \o Dumps(Dict([summary |-> Standup, start_time |-> Nine, end_time |-> QuarterPast]),
                         <<"summary", "start_time", "end_time">>))

\* one more component invocation of the run
Invoke(A) == invocations < MaxSteps /\ A /\ invocations' = invocations + 1

Next ==
    \/ Invoke(\E p \in {None, Str(<<"sa.json">>)}, e \in {None, ValidBlob} : Authenticate(p, e))
    \/ Invoke(\E d \in {None, Day} : ListEvents(Primary, d))
    \/ Invoke(CreateEvent(Primary, Standup, Nine, QuarterPast, None, None))
    \/ Invoke(\E id \in EventIds : ModifyFetch(id, Retro, Notes, None))
    \/ ModifyUpdate /\ UNCHANGED invocations
    \/ Invoke(\E id \in EventIds : DeleteEvent(id, None))
    \/ Invoke(\E j \in {DraftJson, Str(<<"{">>)} : ExtractEvent(j))
    \/ (\E i \in 1..MaxStore : ExternalWrite(i, "location", Room2)) /\ UNCHANGED invocations

Spec == Init /\ [][Next]_vars

(***************************************************************************)
(* Listing: one calendar, listed                                           *)
(***************************************************************************)
\* the context after a successful AuthenticateGoogleCalendar
AuthedCtx == AuthenticateGoogleCalendar_execute(Dict(<<>>), Str(<<"sa.json">>), None).ctx

\* the stored events q, with the identifiers the service gave them
WithIds(q) == [i \in 1..Len(q) |-> SetItem(q[i], "id", EventId(i))]

Timed == Dict([start |-> Dict([dateTime |-> Nine]), end |-> Dict([dateTime |-> QuarterPast])])

MeetLink == Str(<<"https:", "/", "/", "meet.google.com", "/", "abc-defg-hij">>)

\* the meeting links: every string of at most MaxLinkLen pieces, and a real one
Links == {Str(q) : q \in SeqsUpTo({"/", "a"}, MaxLinkLen)} \cup {MeetLink}

\* the attendees of a listed event: with an email, with further fields, and
\* without an email
AttendeeShapes ==
    {Dict([email |-> Alice]),
     Dict([email |-> Bob, responseStatus |-> Str(<<"accepted">>)]),
     Dict([displayName |-> Str(<<"Carol">>)])}

\* the plain events: with and without a title, and events whose start or end
\* is an all-day date, holds both forms, holds neither, or is missing. The
\* service is outside this code, which reads whatever event it is handed.
PlainEvents ==
    {Timed,
     SetItem(Timed, "hangoutLink", MeetLink),
     SetItem(SetItem(Timed, "summary", Retro), "location", Room2),
     Dict([summary |-> Retro, start |-> Dict([date |-> Day]), end |-> Dict([date |-> Day])]),
     Dict([summary |-> Retro, start |-> Dict([date |-> Day, dateTime |-> Nine]), end |-> Dict(<<>>)]),
     Dict([summary |-> Retro, end |-> Dict([dateTime |-> QuarterPast])]),
     Dict([summary |-> Retro, start |-> Dict([dateTime |-> Nine])]),
     Dict([summary |-> Retro])}

\* the events of a listed calendar: the plain ones, a timed event with each
\* link, and a timed event with each attendee list
ListedEvents ==
    PlainEvents
    \cup {SetItem(SetItem(Timed, "summary", Standup), "hangoutLink", l) : l \in Links}
    \cup {SetItem(SetItem(Timed, "summary", Standup), "attendees", List(q)) :
            q \in SeqsUpTo(AttendeeShapes, MaxParticipants)}

\* the listed calendars: the empty one, and at most MaxItems events of which
\* all but one are plain
ListedCalendars ==
    {<<>>}
    \cup {pp[1] \o <<e>> \o pp[2] :
            e \in ListedEvents,
            pp \in {qq \in SeqsUpTo(PlainEvents, MaxItems - 1) \X SeqsUpTo(PlainEvents, MaxItems - 1) :
                       Len(qq[1]) + Len(qq[2]) < MaxItems}}

InitList == \E q \in ListedCalendars : InitWith(AuthedCtx, WithIds(q))

NextList == (\E d \in {None, Day} : ListEvents(Primary, d)) /\ UNCHANGED invocations

SpecList == InitList /\ [][NextList]_vars

(***************************************************************************)
(* Creation: one event created in an empty calendar                        *)
(***************************************************************************)
InitCreate == InitWith(AuthedCtx, <<>>)

NextCreate ==
    /\ store = <<>>
    /\ \E summary \in {Standup, Retro}, start_time \in {Nine, QuarterPast},
          location \in {None, Str(<<>>), Room2},
          participants \in {None} \cup {List(q) : q \in SeqsUpTo({Alice, Bob}, MaxParticipants)} :
         CreateEvent(Primary, summary, start_time, QuarterPast, location, participants)
    /\ UNCHANGED invocations

SpecCreate == InitCreate /\ [][NextCreate]_vars

(***************************************************************************)
(* Modification: one stored event, modified while other clients write      *)
(***************************************************************************)
\* the stored event: every choice of the optional fields
ModifiableEvents ==
    {Dict(SetItem(Timed, "summary", Standup).val @@ extra) :
        extra \in {[k \in K |-> [description |-> Str(<<"Daily">>),
                                 location    |-> Str(<<"Room 1">>),
                                 attendees   |-> List(<<Dict([email |-> Alice])>>),
                                 hangoutLink |-> MeetLink][k]] :
                   K \in SUBSET {"description", "location", "attendees", "hangoutLink"}}}

InitModify == \E e \in ModifiableEvents : InitWith(AuthedCtx, WithIds(<<e>>))

NextModify ==
    \/ (\E id \in {EventId(1), Unknown}, new_summary \in {Retro, Standup},
           new_description \in {Notes, None}, calendar_id \in {None, Str(<<>>), Str(<<"team">>)} :
          ModifyFetch(id, new_summary, new_description, calendar_id)) /\ UNCHANGED invocations
    \/ ModifyUpdate /\ UNCHANGED invocations
    \/ ExternalWrite(1, "location", Room2) /\ UNCHANGED invocations

SpecModify == InitModify /\ [][NextModify]_vars

(***************************************************************************)
(* Extraction: JSON strings parsed one after another                       *)
(***************************************************************************)
DraftFields ==
    Dict([summary |-> Standup, start_time |-> Nine, end_time |-> QuarterPast,
          location |-> Room2, participants |-> List(<<Alice, Bob>>)])

\* the subsequence of q of the elements in K
RECURSIVE Restrict(_, _)
Restrict(q, K) ==
    IF q = <<>> THEN <<>>
    ELSE (IF Head(q) \in K THEN <<Head(q)>> ELSE <<>>) \o Restrict(Tail(q), K)

\* the serialized drafts, one for each set of fields present
DraftJsons ==
    {Str(<<"{">> \o Dumps(DraftFields,
                          Restrict(<<"summary", "start_time", "end_time", "location", "participants">>, K))) :
        K \in SUBSET Keys(DraftFields)}

\* the pieces of a string literal and of an object member
Literal(q) == <<Quote>> \o q \o <<Quote>>

Member(k, v) == Literal(k) \o <<":", " ">> \o v

\* a draft laid out on several lines
MultiLineJson ==
    Str(<<"{", "\n", " ">> \o Member(<<"summary">>, Literal(<<"Standup">>)) \o <<",", "\n", "\t">>
        \o Literal(<<"start_time">>) \o <<":">> \o Literal(Nine.val) \o <<",", "\r", "\n">>
        \o Literal(<<"end_time">>) \o <<" ", ":", "\t">> \o Literal(QuarterPast.val) \o <<"\n", "}", "\r", "\n">>)

\* a draft whose summary is written with escape sequences: Stand"up A, a newline, an e acute, a smiley
EscapedJson ==
    Str(<<"{">> \o Member(<<"summary">>,
                          Literal(<<"Stand", Backslash, Quote, "up", " ", Backslash, "u", "0", "0", "4", "1",
                                    Backslash, "n", Backslash, "u", "0", "0", "e", "9",
                                    Backslash, "u", "d", "8", "3", "d", Backslash, "u", "D", "E", "0", "0">>))
        \o <<",", " ">> \o Member(<<"start_time">>, Literal(Nine.val))
        \o <<",", " ">> \o Member(<<"end_time">>, Literal(QuarterPast.val)) \o <<"}">>)

\* a draft whose member names end in a slash
SlashKeysJson ==
    Str(<<"{">> \o Member(<<"summary", "/">>, Literal(<<"Standup">>))
        \o <<",", " ">> \o Member(<<"start_time", "/">>, Literal(Nine.val))
        \o <<",", " ">> \o Member(<<"end_time", "/">>, Literal(QuarterPast.val)) \o <<"}">>)

\* a draft whose start_time is an object whose member names are an e acute,
\* the six characters U+00E9, the same name written with an escape sequence,
\* a+b and a/b
OddKeysJson ==
    Str(<<"{">> \o Member(<<"summary">>, Literal(<<"Standup">>))
        \o <<",", " ">> \o Literal(<<"start_time">>) \o <<":", " ", "{">>
        \o Member(<<"U+00E9">>, <<"1">>)
        \o <<",", " ">> \o Member(<<"U", "+", "00E9">>, <<"2">>)
        \o <<",", " ">> \o Member(<<"U", Backslash, "u", "0", "0", "2", "b", "00E9">>, <<"3">>)
        \o <<",", " ">> \o Member(<<"a", "+", "b">>, <<"4">>)
        \o <<",", " ">> \o Member(<<"a", "/", "b">>, <<"5">>) \o <<"}">>
        \o <<",", " ">> \o Member(<<"end_time">>, Literal(QuarterPast.val)) \o <<"}">>)

\* a draft holding numbers and booleans
NumbersJson ==
    Str(<<"{">> \o Member(<<"summary">>, Literal(<<"Standup">>))
        \o <<",", " ">> \o Member(<<"start_time">>, <<"9">>)
        \o <<",", " ">> \o Member(<<"end_time">>, <<"9", ".", "2", "5", "0">>)
        \o <<",", " ">> \o Member(<<"location">>, <<"-", "1", "e", "2">>)
        \o <<",", " ">> \o Member(<<"participants">>, <<"[", "1", ",", " ", "2", "0", "]">>)
        \o <<",", " ">> \o Member(<<"all_day">>, <<"true">>) \o <<"}">>)

\* a draft holding numbers beyond the range of a float
RangeJson ==
    Str(<<"{">> \o Member(<<"summary">>, <<"1", "e", "4", "0", "0">>)
        \o <<",", " ">> \o Member(<<"start_time">>, <<"-", "1", ".", "8", "E", "+", "3", "0", "8">>)
        \o <<",", " ">> \o Member(<<"end_time">>, <<"1", ".", "7", "9", "e", "3", "0", "8">>)
        \o <<",", " ">> \o Member(<<"location">>, <<"1", "e", "-", "4", "0", "0">>)
        \o <<",", " ">> \o Member(<<"participants">>, <<"[", "2", ".", "5", "e", "-", "3", "2", "4", "]">>)
        \o <<"}">>)

\* a draft whose summary is itself an object with the one member error
ErrorSummaryJson ==
    Str(<<"{">> \o Member(<<"summary">>, <<"{">> \o Member(<<"error">>, Literal(<<"x">>)) \o <<"}">>)
        \o <<",", " ">> \o Member(<<"start_time">>, Literal(Nine.val))
        \o <<",", " ">> \o Member(<<"end_time">>, Literal(QuarterPast.val)) \o <<"}">>)

\* an object that stops after a start_time of false
NoEndJson ==
    Str(<<"{">> \o Member(<<"summary">>, <<"null">>)
        \o <<",", " ">> \o Member(<<"start_time">>, <<"false">>) \o <<"}">>)

\* the drafts, the drafts cut short by one piece, drafts in other layouts and
\* with other values, and strings that are JSON but no object or are no JSON
\* at all
Jsons ==
    DraftJsons
    \cup {Str(SubSeq(j.val, 1, Len(j.val) - 1)) : j \in DraftJsons}
    \cup {MultiLineJson, EscapedJson, SlashKeysJson, OddKeysJson, NumbersJson, RangeJson, ErrorSummaryJson, NoEndJson}
    \cup {Str(<<"{">> \o Member(<<"type">>, Literal(<<"x">>)) \o <<"}">>),
          Str(<<"[", "]">>), Str(<<"[", "1", ",", " ", "2", "]">>), Str(<<"null">>), Str(<<"true">>),
          Str(<<"1">>), Str(<<"0", "1">>), Str(<<"-", "0", ".", "5">>), Str(<<"NaN">>),
          Str(Literal(<<"Standup">>)), Str(Literal(<<"a", "\n", "b">>)),
          Str(Literal(<<Backslash, "x">>)),
          Str(<<>>), Str(<<"{", "}", "}">>), None}

InitExtract == InitWith(Dict(<<>>), <<>>)

NextExtract == (\E j \in Jsons : ExtractEvent(j)) /\ UNCHANGED invocations

SpecExtract == InitExtract /\ [][NextExtract]_vars

(***************************************************************************)
(* Authentication: every path and every value of the environment variable  *)
(***************************************************************************)
Paths == {None, Str(<<>>), Str(<<"sa.json">>), Str(<<"empty.json">>), Str(<<"notes.txt">>),
          Str(<<"missing.json">>)}

EnvValues == {None, Str(<<>>), Str(<<"abc">>), Str(<<"gA==">>), Str(<<"bm90IGpzb24=">>),
              Str(<<"e30=">>), ValidBlob}

NextAuth == (\E p \in Paths, e \in EnvValues : Authenticate(p, e)) /\ UNCHANGED invocations

SpecAuth == Init /\ [][NextAuth]_vars

(***************************************************************************)
(* Properties                                                              *)
(***************************************************************************)
Adapters == {"GetGoogleCalendarEvents", "CreateGoogleCalendarEvent",
             "ModifyGoogleCalendarEvent", "DeleteGoogleCalendarEvent"}

\* the most recent invocation was of a calendar adapter and has returned
Completed == pc = "idle" /\ op.name \in Adapters

\* the output slot of the most recent invocation
OutSlot ==
    CASE op.name = "GetGoogleCalendarEvents"   -> events
      [] op.name = "CreateGoogleCalendarEvent" -> event_id
      [] op.name = "ModifyGoogleCalendarEvent" -> modified_event_id
      [] op.name = "DeleteGoogleCalendarEvent" -> deletion_status

IsErrorObject(v) == IsDict(v) /\ Keys(v) = {"error"}

NoService == ~Has(ctx, "service")

\* C1: a failure of a remote call, or of building the request, never leaves
\* ListEvents, CreateEvent, ModifyEvent or DeleteEvent as an exception: the
\* invocation returns and its output slot holds exactly {error: str(failure)}.
C1_FailuresBecomeErrorObjects ==
    Completed =>
        /\ raised = "none"
        /\ (calls # <<>> /\ ~Last(calls).response.ok
              => OutSlot = Dict([error |-> Last(calls).response.msg]))
        /\ (op.name = "GetGoogleCalendarEvents" /\ ~NoService /\ op.date = None
              => events = Dict([error |-> Str(<<"unsupported operand type(s) for +: 'NoneType' and 'str'">>)]))

\* ModifyEvent returned after its update request failed
C1_Witness ==
    /\ Completed
    /\ op.name = "ModifyGoogleCalendarEvent"
    /\ Len(calls) = 2
    /\ ~calls[2].response.ok
    /\ modified_event_id = Dict([error |-> Str(<<"<HttpError 503 \"Service Unavailable\">">>)])

\* C7, as claimed: every invocation of an adapter issues exactly one remote request.
C7_ExactlyOneRemoteCall == Completed => Len(calls) = 1

\* C7, amended: ListEvents, CreateEvent and DeleteEvent issue at most one
\* remote request, and exactly one when the context holds the handle and the
\* request can be built; ModifyEvent issues at most two, a get and, only after
\* the get succeeded, an update; no request follows a failed one and none is
\* repeated.
C7_CallsPerInvocation ==
    Completed =>
        /\ NoService => calls = <<>>
        /\ op.name # "ModifyGoogleCalendarEvent" =>
             /\ Len(calls) <= 1
             /\ (~NoService /\ ~(op.name = "GetGoogleCalendarEvents" /\ op.date = None))
                   => Len(calls) = 1
        /\ op.name = "ModifyGoogleCalendarEvent" =>
             /\ Len(calls) <= 2
             /\ ~NoService => Len(calls) >= 1
             /\ Len(calls) >= 1 => calls[1].method = "events.get"
             /\ Len(calls) = 1 => ~calls[1].response.ok
             /\ Len(calls) = 2 => calls[2].method = "events.update"
        /\ \A i \in 1..(Len(calls) - 1) : calls[i].response.ok
        /\ \A i, j \in 1..Len(calls) : i # j => calls[i].method # calls[j].method

\* ModifyEvent returned after a get and an update
C7_Witness ==
    /\ Completed
    /\ op.name = "ModifyGoogleCalendarEvent"
    /\ Len(calls) = 2
    /\ calls[2].response.ok

\* C10: an adapter invoked while the context holds no 'service' entry issues
\* no remote request, raises nothing and leaves {error: ...} in its output
\* slot; and the context changes only in a successful Authenticate.
C10_OrderingWithAuthentication ==
    /\ [](Completed /\ NoService =>
            /\ calls = <<>>
            /\ raised = "none"
            /\ OutSlot = Dict([error |-> Str(<<"'service'">>)]))
    /\ [][ctx' # ctx => op'.name = "AuthenticateGoogleCalendar" /\ raised' = "none"
                        /\ Has(ctx', "service")]_vars

\* CreateEvent returned in a run in which nothing has authenticated
C10_Witness ==
    /\ Completed
    /\ NoService
    /\ op.name = "CreateGoogleCalendarEvent"
    /\ IsErrorObject(event_id)
    /\ invocations > 1

\* the stored event with identifier id
Stored(s, id) == s[CHOOSE i \in Positions(s, id) : TRUE]

\* C8: whatever the calendar holds when the update of ModifyEvent arrives, a
\* successful update leaves the stored event with the field values seen at
\* fetch time and the new summary and description, and ModifyEvent reports the
\* event id; a write made by another client between the fetch and the update
\* is lost.
C8_LastWriteWins ==
    [][(pc = "fetched" /\ pc' = "idle" /\ Last(calls').response.ok) =>
         /\ Positions(store', op.event_id) # {}
         /\ LET after == Stored(store', op.event_id)
            IN /\ Keys(after) = Keys(local.event) \cup {"summary", "description"}
               /\ \A k \in Keys(local.event) \ {"summary", "description"} :
                     Item(after, k) = Item(local.event, k)
               /\ Item(after, "summary") = op.new_summary
               /\ Item(after, "description") = op.new_description
         /\ modified_event_id' = op.event_id]_vars

\* ModifyEvent reported success after overwriting the location another client
\* had set between the fetch and the update
C8_Witness ==
    /\ Completed
    /\ op.name = "ModifyGoogleCalendarEvent"
    /\ Len(calls) = 2
    /\ calls[2].response.ok
    /\ ~Has(calls[1].response.val, "location")
    /\ calls[2].replaced # None
    /\ Get(calls[2].replaced, "location", None) = Room2
    /\ Positions(store, op.event_id) # {}
    /\ ~Has(Stored(store, op.event_id), "location")
    /\ modified_event_id = op.event_id

\* C2: the body ModifyEvent sends in its update request has the keys of the
\* fetched event and summary and description, equals the fetched event on
\* every other key, and carries the new summary and the new description.
C2_ModifyPreservesOtherFields ==
    (op.name = "ModifyGoogleCalendarEvent" /\ Len(calls) = 2) =>
        LET fetched == calls[1].response.val
            body    == calls[2].body
        IN /\ Keys(body) = Keys(fetched) \cup {"summary", "description"}
           /\ \A k \in Keys(fetched) \ {"summary", "description"} : Item(body, k) = Item(fetched, k)
           /\ Item(body, "summary") = op.new_summary
           /\ Item(body, "description") = op.new_description

\* an event with attendees and a link but no description was modified
C2_Witness ==
    /\ op.name = "ModifyGoogleCalendarEvent"
    /\ Len(calls) = 2
    /\ ~Has(calls[1].response.val, "description")
    /\ {"attendees", "hangoutLink", "location"} \subseteq Keys(calls[1].response.val)
    /\ Item(calls[2].body, "description") = Notes

\* the listing call of the most recent ListEvents succeeded
ListSucceeded ==
    /\ op.name = "GetGoogleCalendarEvents"
    /\ calls # <<>>
    /\ calls[1].response.ok

\* the items of the listing the service returned
ListedItems == Get(calls[1].response.val, "items", List(<<>>)).val

\* the records ListEvents produced
Records == Item(events, "events").val

\* s is the part of q after its last "/", or q when q holds none
IsLastSegment(s, q) ==
    /\ \A i \in 1..Len(s) : s[i] # "/"
    /\ \/ s = q
       \/ /\ Len(q) > Len(s)
          /\ q[Len(q) - Len(s)] = "/"
          /\ s = SubSeq(q, Len(q) - Len(s) + 1, Len(q))

\* C3: in every record ListEvents produces, meeting_id is not None exactly
\* when the event's hangoutLink (taken as '' when absent) is non-empty, and
\* then it is the part of the link after its last '/'.
C3_MeetingId ==
    (ListSucceeded /\ IsDict(events) /\ Has(events, "events")) =>
        \A i \in 1..Len(Records) :
            LET link == Get(ListedItems[i], "hangoutLink", Str(<<>>))
                rec  == Records[i]
            IN /\ Item(rec, "gmeet_link") = link
               /\ Item(rec, "meeting_id") # None <=> link.val # <<>>
               /\ link.val # <<>> =>
                    /\ Item(rec, "meeting_id").type = "str"
                    /\ IsLastSegment(Item(rec, "meeting_id").val, link.val)

\* an event whose link ends in '/' was listed after an event without a link:
\* the first record has no meeting_id, the second an empty one
C3_Witness ==
    /\ ListSucceeded
    /\ IsDict(events) /\ Has(events, "events")
    /\ Len(Records) = 2
    /\ ~Has(ListedItems[1], "hangoutLink")
    /\ Item(Records[1], "meeting_id") = None
    /\ Item(Records[2], "gmeet_link") = Str(<<"a", "/">>)
    /\ Item(Records[2], "meeting_id") = Str(<<>>)

\* record i is the record of item i
RecordsFollowItems ==
    /\ IsDict(events) /\ Keys(events) = {"events"}
    /\ Len(Records) = Len(ListedItems)
    /\ \A i \in 1..Len(ListedItems) :
          /\ Item(Records[i], "event_name") = Get(ListedItems[i], "summary", Str(<<"No Title">>))
          /\ Item(Records[i], "location") = Get(ListedItems[i], "location", Str(<<>>))
          /\ Item(Records[i], "gmeet_link") = Get(ListedItems[i], "hangoutLink", Str(<<>>))
          /\ Len(Item(Records[i], "participants").val)
                = Len(Get(ListedItems[i], "attendees", List(<<>>)).val)

\* C4, as claimed: a listing that succeeds yields exactly the message "No
\* events found for the specified day." when it holds no item (no items key,
\* or an empty list), and otherwise {events: S} with one record for each
\* item, in the order in which the service returned the items.
C4_OneRecordPerItem ==
    ListSucceeded =>
        IF ListedItems = <<>>
        THEN events = Dict([message |-> Str(<<"No events found for the specified day.">>)])
        ELSE RecordsFollowItems

\* the keys item lacks among those a record cannot do without: start, end,
\* and email in one of its attendees
Lacking(item) ==
    {k \in {"start", "end"} : ~Has(item, k)}
    \cup {k \in {"email"} : \E j \in 1..Len(Get(item, "attendees", List(<<>>)).val) :
                                 ~Has(Item(item, "attendees").val[j], k)}

\* the first of start, end and email that is in K
FirstOf(K) == IF "start" \in K THEN "start" ELSE IF "end" \in K THEN "end" ELSE "email"

\* the positions of the items that lack a key
Incomplete(items) == {i \in 1..Len(items) : Lacking(items[i]) # {}}

\* the first item that lacks a key
FirstIncomplete(items) == items[CHOOSE i \in Incomplete(items) : \A j \in Incomplete(items) : i <= j]

\* C4, amended: a listing that succeeds yields exactly the message when it
\* holds no item; when every item carries start and end and every attendee an
\* email, it yields {events: S} with one record for each item, in the order
\* of the items; when some item lacks one of them, it yields exactly
\* {error: "'k'"}, k being the first of start, end and email that the first
\* such item lacks.
C4_RecordsOrMissingKey ==
    ListSucceeded =>
        IF ListedItems = <<>>
        THEN events = Dict([message |-> Str(<<"No events found for the specified day.">>)])
        ELSE IF Incomplete(ListedItems) = {}
        THEN RecordsFollowItems
        ELSE events = Dict([error |-> Str(<<"'" \o FirstOf(Lacking(FirstIncomplete(ListedItems))) \o "'">>)])

\* two events were listed, the first with an attendee without email, the
\* second without start and end: the result names the email
C4_Witness ==
    /\ ListSucceeded
    /\ Len(ListedItems) = 2
    /\ Lacking(ListedItems[1]) = {"email"}
    /\ Lacking(ListedItems[2]) = {"start", "end"}
    /\ events = Dict([error |-> Str(<<"'email'">>)])

\* C5: the payload CreateEvent passes to insert holds summary, start and end
\* (each {dateTime: the given value, timeZone: 'UTC'}); it holds 'location'
\* exactly when a non-empty location was given, and 'attendees' exactly when a
\* non-empty participants list was given, then the list of {email: p} in input
\* order; it holds no other key.
C5_CreatePayload ==
    (op.name = "CreateGoogleCalendarEvent" /\ calls # <<>>) =>
        LET body == calls[1].body
        IN /\ {"summary", "start", "end"} \subseteq Keys(body)
           /\ Keys(body) \subseteq {"summary", "start", "end", "location", "attendees"}
           /\ Item(body, "summary") = op.summary
           /\ Item(body, "start") = Dict([dateTime |-> op.start_time, timeZone |-> Str(<<"UTC">>)])
           /\ Item(body, "end") = Dict([dateTime |-> op.end_time, timeZone |-> Str(<<"UTC">>)])
           /\ Has(body, "location") <=> (op.location # None /\ op.location.val # <<>>)
           /\ Has(body, "location") => Item(body, "location") = op.location
           /\ Has(body, "attendees") <=> (op.participants # None /\ op.participants.val # <<>>)
           /\ Has(body, "attendees") =>
                /\ Len(Item(body, "attendees").val) = Len(op.participants.val)
                /\ \A i \in 1..Len(op.participants.val) :
                      Item(body, "attendees").val[i] = Dict([email |-> op.participants.val[i]])

\* an event with an empty location and two participants was created
C5_Witness ==
    /\ op.name = "CreateGoogleCalendarEvent"
    /\ calls # <<>>
    /\ op.location = Str(<<>>)
    /\ op.participants = List(<<Bob, Alice>>)
    /\ Keys(calls[1].body) = {"summary", "start", "end", "attendees"}
    /\ event_id = EventId(1)

\* the exceptions Authenticate ends with when no credential source is usable
ConfigurationError == {"ValueError", "binascii.Error", "UnicodeDecodeError", "JSONDecodeError"}

Consulted == {calls[i].method : i \in 1..Len(calls)}

\* C6: Authenticate uses the file when a path is given and the file exists,
\* and then does not read the environment variable; otherwise it uses the
\* blob of the variable. It fails when neither is available or the blob does
\* not decode or parse, and a failing Authenticate leaves the context as it
\* was; a successful one publishes the handle under 'service'.
C6_CredentialSource ==
    /\ [](op.name = "AuthenticateGoogleCalendar" =>
            LET path     == op.service_account_json
                fromFile == path # None /\ path.val # <<>> /\ path \in DOMAIN FileSystem
            IN /\ fromFile => "os.getenv" \notin Consulted
                              /\ "from_service_account_file" \in Consulted
               /\ ~fromFile => "os.getenv" \in Consulted
                               /\ "from_service_account_file" \notin Consulted
               /\ (~fromFile /\ op.env \in {None, Str(<<>>), Str(<<"abc">>), Str(<<"gA==">>),
                                            Str(<<"bm90IGpzb24=">>)})
                     => raised \in ConfigurationError
               /\ raised = "none" =>
                     /\ Has(ctx, "service")
                     /\ Item(ctx, "service").credentials.source = IF fromFile THEN "file" ELSE "env"
               /\ (~fromFile /\ op.env = ValidBlob) => raised = "none"
               /\ (fromFile /\ path = Str(<<"sa.json">>)) => raised = "none")
    /\ [][raised' # "none" => ctx' = ctx]_vars

\* Authenticate failed on a blob that is no JSON, after an earlier success:
\* the handle published then is still in the context
C6_Witness ==
    /\ op.name = "AuthenticateGoogleCalendar"
    /\ op.service_account_json = Str(<<"missing.json">>)
    /\ op.env = Str(<<"bm90IGpzb24=">>)
    /\ raised = "JSONDecodeError"
    /\ Has(ctx, "service")
    /\ Item(ctx, "service").credentials.source = "file"

\* the step is an ExtractEventFromJson that ends in its except clause
ExtractFailed == op'.name = "ExtractEventFromJsonString" /\ op'.caught # "none"

\* C9, as claimed: when ExtractEventFromJson fails, summary is set to
\* {error: ...} and the four other outputs are as they were before.
C9_OnlySummarySet ==
    [][ExtractFailed =>
         /\ IsErrorObject(extract'.summary)
         /\ extract'.start_time = extract.start_time
         /\ extract'.end_time = extract.end_time
         /\ extract'.location = extract.location
         /\ extract'.participants = extract.participants]_vars

\* C9, amended: when ExtractEventFromJson fails, summary is set to
\* {error: ...}, and end_time, location and participants are as they were
\* before; start_time is as it was before unless the failure is the missing
\* key end_time, in which case it holds the start_time of the JSON.
C9_SummarySetStartTimeMaybe ==
    [][ExtractFailed =>
         /\ IsErrorObject(extract'.summary)
         /\ extract'.end_time = extract.end_time
         /\ extract'.location = extract.location
         /\ extract'.participants = extract.participants
         /\ IF extract'.summary = Dict([error |-> Str(<<"'end_time'">>)])
            THEN extract'.start_time = Item(json_loads(op'.json).val, "start_time")
            ELSE extract'.start_time = extract.start_time]_vars

\* an extraction failed on a missing start_time after one that had succeeded:
\* the outputs of the earlier one are still there
C9_Witness ==
    /\ op.name = "ExtractEventFromJsonString"
    /\ op.caught = "KeyError"
    /\ extract.summary = Dict([error |-> Str(<<"'start_time'">>)])
    /\ extract.start_time = Nine
    /\ extract.end_time = QuarterPast
    /\ extract.location = Str(<<>>)
    /\ extract.participants = List(<<Alice, Bob>>)
====
